---- MODULE Spec2Model ----
(***************************************************************************)
(* Model of the transient-source flattening pipeline: the record validator *)
(* and field extractors (src/src/parser.py), the source flattener and its  *)
(* dataset builder (src/src/dataset.py), the lightcurve flattener and its  *)
(* builder (src/src/lightcurves.py) and the copilot orchestration          *)
(* (src/src/llm_copilot.py).                                               *)
(*                                                                         *)
(* JSON / Python values are tagged records:                                *)
(*   None  [t |-> "null"]          bool  [t |-> "bool", b |-> TRUE]        *)
(*   int   [t |-> "num", n |-> 1]  str   [t |-> "str", s |-> "abc"]        *)
(*   list  [t |-> "list", items |-> <<...>>]                               *)
(*   dict  [t |-> "map", m |-> f]  with DOMAIN f the keys that are present *)
(* A raised exception is [t |-> "raise", exc |-> class, arg |-> detail].   *)
(***************************************************************************)
EXTENDS Integers, Sequences, FiniteSets, TLC

VARIABLES
    call, arg, ret,          \* one direct call of a parser / flattener function
    data,                    \* the list of raw records given to the builders
    phase,                   \* which call of the pipeline is executing
    i, rows,                 \* loop index and accumulated rows of the running builder
    sources, lightcurves,    \* what build_dataset / build_lightcurve_dataset produced
    source_id, source_row, lc, lc_summary, prompt,   \* run_copilot_for_source locals
    llm_calls, result        \* calls made to the language model, the call's outcome

vars == <<call, arg, ret, data, phase, i, rows, sources, lightcurves,
          source_id, source_row, lc, lc_summary, prompt, llm_calls, result>>

-----------------------------------------------------------------------------
(* Python values *)

None == [t |-> "null"]
Bool(b) == [t |-> "bool", b |-> b]
Num(n) == [t |-> "num", n |-> n]
Str(s) == [t |-> "str", s |-> s]
List(items) == [t |-> "list", items |-> items]
Raise(exc, a) == [t |-> "raise", exc |-> exc, arg |-> a]

\* Marks a key left out when a dict literal of the input domain is written down;
\* it is never a value of the program.
ABSENT == [t |-> "absent"]
Dict(f) == [t |-> "map", m |-> [k \in {x \in DOMAIN f : f[x] # ABSENT} |-> f[k]]]
EmptyDict == Dict([id |-> ABSENT])

isinstance_dict(v) == v.t = "map"
isinstance_list(v) == v.t = "list"
is_raise(v) == v.t = "raise"

\* Python truth value, as used by `x or default`
truthy(v) ==
    CASE v.t = "null" -> FALSE
      [] v.t = "bool" -> v.b
      [] v.t = "num" -> v.n # 0
      [] v.t = "str" -> v.s # ""
      [] v.t = "list" -> v.items # <<>>
      [] v.t = "map" -> DOMAIN v.m # {}

py_or(v, default) == IF truthy(v) THEN v ELSE default

\* key in d
has_key(d, k) == k \in DOMAIN d.m

\* v.get(k): a dict answers with the value or None; str, int, list and None
\* have no attribute get
get(v, k) ==
    IF isinstance_dict(v)
    THEN (IF has_key(v, k) THEN v.m[k] ELSE None)
    ELSE Raise("AttributeError", "get")

-----------------------------------------------------------------------------
(* src/src/parser.py *)

required_fields_reordered == <<"ra", "id", "dec", "score">>
required_fields == <<"id", "ra", "dec", "score">>

RECURSIVE validate_loop(_, _)
validate_loop(obj, fields) ==
    IF fields = <<>> THEN None
    ELSE IF ~has_key(obj, Head(fields))
         THEN Raise("KeyError", Head(fields))
         ELSE validate_loop(obj, Tail(fields))

validate_source(obj) == validate_loop(obj, required_fields)

parse_label(obj) ==
    LET tns == py_or(get(obj, "tns_info"), EmptyDict)
        obj_type == get(tns, "object_type")
    IN  IF is_raise(obj_type) THEN obj_type
        ELSE IF obj_type = None THEN None
        ELSE get(obj_type, "name")

\* parse_photometry and parse_spectra are the same code over two keys
parse_list(obj, key) ==
    LET tns == py_or(get(obj, "tns_info"), EmptyDict)
        got == get(tns, key)
    IN  IF is_raise(got) THEN got
        ELSE LET nested == py_or(got, List(<<>>))
             IN  IF ~isinstance_list(nested) THEN List(<<>>) ELSE nested

parse_photometry(obj) == parse_list(obj, "photometry")
parse_spectra(obj) == parse_list(obj, "spectra")

-----------------------------------------------------------------------------
(* src/src/dataset.py *)

\* the dict literal source_to_row returns
flat_row(obj, photometry, spectra, label) ==
    [t |-> "map", m |-> [
        id |-> obj.m["id"],
        ra |-> obj.m["ra"],
        dec |-> obj.m["dec"],
        score |-> get(obj, "score"),
        is_transient |-> get(obj, "transient"),
        is_varstar |-> get(obj, "varstar"),
        is_roid |-> get(obj, "is_roid"),
        redshift |-> get(obj, "redshift"),
        label |-> label,
        has_tns |-> Bool(isinstance_dict(get(obj, "tns_info"))),
        has_redshift |-> Bool(get(obj, "redshift") # None),
        has_photometry |-> Bool(Len(photometry.items) > 0),
        has_spectra |-> Bool(Len(spectra.items) > 0),
        n_photometry |-> Num(Len(photometry.items)),
        n_spectra |-> Num(Len(spectra.items))]]

source_to_row_lists_swapped(obj) ==
    IF ~isinstance_dict(obj) THEN None
    ELSE IF is_raise(validate_source(obj)) THEN validate_source(obj)
    ELSE IF is_raise(parse_photometry(obj)) THEN parse_photometry(obj)
    ELSE IF is_raise(parse_label(obj)) THEN parse_label(obj)
    ELSE flat_row(obj, parse_spectra(obj), parse_photometry(obj), parse_label(obj))

source_to_row(obj) ==
    IF ~isinstance_dict(obj) THEN None
    ELSE LET valid == validate_source(obj)
             photometry == parse_photometry(obj)
             spectra == parse_spectra(obj)
             label == parse_label(obj)
         IN  IF is_raise(valid) THEN valid
             ELSE IF is_raise(photometry) THEN photometry
             ELSE IF is_raise(spectra) THEN spectra
             ELSE IF is_raise(label) THEN label
             ELSE flat_row(obj, photometry, spectra, label)

-----------------------------------------------------------------------------
(* src/src/lightcurves.py *)

is_detection_truthy(flux) == truthy(flux)
is_detection(flux) == flux # None

photometry_point_to_row(sid, point) ==
    IF ~isinstance_dict(point) THEN None
    ELSE LET jd == get(point, "jd")
             flux == get(point, "flux")
         IN  IF jd = None THEN None
             ELSE LET filters == py_or(get(point, "filters"), EmptyDict)
                      filt_name == IF isinstance_dict(filters)
                                   THEN get(filters, "name") ELSE None
                  IN  [t |-> "map", m |-> [
                         id |-> sid,
                         jd |-> jd,
                         flux |-> flux,
                         flux_err |-> get(point, "fluxerr"),
                         filter |-> filt_name,
                         is_detection |-> Bool(is_detection(flux))]]

-----------------------------------------------------------------------------
(* Inputs of the direct calls *)

MaxList == 2

SeqsUpTo(S, n) == UNION {[1..k -> S] : k \in 0..n}

PointInputs ==
    {Str("bad"), None, List(<<>>)} \cup
    {Dict([jd |-> a, flux |-> b, fluxerr |-> c, filters |-> d]) :
        a \in {ABSENT, None, Num(0), Num(10)},
        b \in {ABSENT, None, Num(0), Num(3)},
        c \in {ABSENT, Num(1)},
        d \in {ABSENT, None, Str("r"), EmptyDict, Dict([name |-> Str("r")])}}

PointSamples ==
    {Str("bad"), Dict([jd |-> Num(10), flux |-> Num(3)]), Dict([flux |-> Num(1)])}

TnsInputs ==
    {ABSENT, None, Str(""), Str("abc"), Num(0), Num(7), List(<<>>), List(<<Num(1)>>)}
    \cup
    {Dict([object_type |-> a, photometry |-> b, spectra |-> c]) :
        a \in {ABSENT, None, Str("SN"), EmptyDict, Dict([name |-> Str("SN Ia")])},
        b \in {ABSENT, None, Str("x"), Dict([jd |-> Num(1)])}
              \cup {List(l) : l \in SeqsUpTo(PointSamples, MaxList)},
        c \in {ABSENT, Str("x"), List(<<>>), List(<<EmptyDict>>)}}

SourceInputs ==
    {Dict([id |-> a, ra |-> b, dec |-> c, score |-> d, redshift |-> e, tns_info |-> f]) :
        a \in {ABSENT, None, Num(1)},
        b \in {ABSENT, Num(0)},
        c \in {ABSENT, Num(0)},
        d \in {ABSENT, Num(5)},
        e \in {ABSENT, Num(2)},
        f \in TnsInputs}

IdInputs == {None, Num(1), Str("a")}

-----------------------------------------------------------------------------
(* Direct calls: each function applied once to an input of its domain *)

PipelineIdle ==
    /\ data = <<>> /\ phase = "idle" /\ i = 0 /\ rows = <<>>
    /\ sources = None /\ lightcurves = None
    /\ source_id = None /\ source_row = None /\ lc = None
    /\ lc_summary = None /\ prompt = None
    /\ llm_calls = 0 /\ result = None

pipelineVars == <<data, phase, i, rows, sources, lightcurves, source_id,
                  source_row, lc, lc_summary, prompt, llm_calls, result>>

InitFn == call = "none" /\ arg = <<>> /\ ret = None /\ PipelineIdle

Apply(name, args, value) ==
    /\ call' = name /\ arg' = args /\ ret' = value
    /\ UNCHANGED pipelineVars

CallValidateSource ==
    /\ call = "none" /\ phase = "idle"
    /\ \E o \in SourceInputs : Apply("validate_source", <<o>>, validate_source(o))

CallParseLabel ==
    /\ call = "none" /\ phase = "idle"
    /\ \E o \in SourceInputs : Apply("parse_label", <<o>>, parse_label(o))

CallParsePhotometry ==
    /\ call = "none" /\ phase = "idle"
    /\ \E o \in SourceInputs : Apply("parse_photometry", <<o>>, parse_photometry(o))

CallParseSpectra ==
    /\ call = "none" /\ phase = "idle"
    /\ \E o \in SourceInputs : Apply("parse_spectra", <<o>>, parse_spectra(o))

CallSourceToRow ==
    /\ call = "none" /\ phase = "idle"
    /\ \E o \in SourceInputs \cup {Str("not-a-dict")} :
        Apply("source_to_row", <<o>>, source_to_row(o))

CallPhotometryPointToRow ==
    /\ call = "none" /\ phase = "idle"
    /\ \E sid \in IdInputs, p \in PointInputs :
        Apply("photometry_point_to_row", <<sid, p>>, photometry_point_to_row(sid, p))

NextFn ==
    \/ CallValidateSource
    \/ CallParseLabel
    \/ CallParsePhotometry
    \/ CallParseSpectra
    \/ CallSourceToRow
    \/ CallPhotometryPointToRow

SpecFn == InitFn /\ [][NextFn]_vars

-----------------------------------------------------------------------------
(* pandas, as far as the builders and the copilot use it *)

\* pd.DataFrame(rows) over a list of dicts: the columns are the keys of the
\* rows, so an empty list gives a frame without columns
DataFrame(rs) ==
    [t |-> "frame",
     columns |-> UNION {DOMAIN rs[k].m : k \in DOMAIN rs},
     rows |-> rs]

is_frame(v) == v.t = "frame"

\* df[df[col] == value]; df[col] raises KeyError when the frame has no such column
filter_eq(df, col, value) ==
    IF col \notin df.columns THEN Raise("KeyError", col)
    ELSE [df EXCEPT !.rows = SelectSeq(df.rows, LAMBDA r : r.m[col] = value)]

\* df.iloc[0].to_dict()
iloc0(df) ==
    IF df.rows = <<>> THEN Raise("IndexError", "iloc") ELSE df.rows[1]

\* df[df[col].notna()]
filter_notna(df, col) ==
    IF col \notin df.columns THEN Raise("KeyError", col)
    ELSE [df EXCEPT !.rows = SelectSeq(df.rows, LAMBDA r : r.m[col] # None)]

RECURSIVE column_min(_, _)
column_min(rs, col) ==
    IF Len(rs) = 1 THEN rs[1].m[col].n
    ELSE LET rest == column_min(Tail(rs), col)
         IN  IF rs[1].m[col].n < rest THEN rs[1].m[col].n ELSE rest

RECURSIVE column_max(_, _)
column_max(rs, col) ==
    IF Len(rs) = 1 THEN rs[1].m[col].n
    ELSE LET rest == column_max(Tail(rs), col)
         IN  IF rs[1].m[col].n > rest THEN rs[1].m[col].n ELSE rest

-----------------------------------------------------------------------------
(* src/src/lightcurves.py: the loop over one record's photometry points *)

RECURSIVE point_rows_reversed(_, _)
point_rows_reversed(sid, points) ==
    IF points = <<>> THEN <<>>
    ELSE LET row == photometry_point_to_row(sid, Head(points))
             rest == point_rows_reversed(sid, Tail(points))
         IN  IF row # None THEN rest \o <<row>> ELSE rest

RECURSIVE point_rows(_, _)
point_rows(sid, points) ==
    IF points = <<>> THEN <<>>
    ELSE LET row == photometry_point_to_row(sid, Head(points))
             rest == point_rows(sid, Tail(points))
         IN  IF row # None THEN <<row>> \o rest ELSE rest

-----------------------------------------------------------------------------
(* src/src/llm_copilot.py *)

time_span_all_rows(df, detections) ==
    Num(column_max(df.rows, "jd") - column_min(df.rows, "jd"))
time_span_days(df, detections) ==
    Num(column_max(detections.rows, "jd") - column_min(detections.rows, "jd"))

summarize_lightcurve(df) ==
    LET detections == filter_notna(df, "flux")
    IN  IF is_raise(detections) THEN detections
        ELSE IF "filter" \notin df.columns THEN Raise("KeyError", "filter")
        ELSE LET n_points == Num(Len(df.rows))
                 n_detections == Num(Len(detections.rows))
                 \* sorted(unique non-null names): the set, in its one sorted order
                 filters == [t |-> "sorted",
                             of |-> {df.rows[k].m["filter"] : k \in DOMAIN df.rows}
                                        \ {None}]
             IN  IF detections.rows # <<>>
                 THEN [t |-> "map", m |-> [
                         n_points |-> n_points,
                         n_detections |-> n_detections,
                         filters |-> filters,
                         flux_min |-> Num(column_min(detections.rows, "flux")),
                         flux_max |-> Num(column_max(detections.rows, "flux")),
                         time_span_days |-> time_span_days(df, detections)]]
                 ELSE [t |-> "map", m |-> [
                         n_points |-> n_points,
                         n_detections |-> n_detections,
                         filters |-> filters,
                         flux_min |-> None,
                         flux_max |-> None,
                         time_span_days |-> None]]

\* the values the template renders, in the order they appear in the text
build_prompt(row, summary) ==
    [t |-> "prompt",
     metadata |-> [k \in {"id", "ra", "dec", "score", "is_transient", "is_varstar",
                          "is_roid", "has_tns", "has_redshift", "has_spectra",
                          "redshift", "label"} |-> get(row, k)],
     lightcurve |-> [k \in {"n_points", "n_detections", "filters", "flux_min",
                            "flux_max", "time_span_days"} |-> get(summary, k)]]

\* what the external chat call can do with a prompt: answer or fail
query_llm_outcomes(p) == {Str("response"), Raise("ResponseError", "chat")}

-----------------------------------------------------------------------------
(* The pipeline: build_dataset, then build_lightcurve_dataset, over the same
   list of raw records, then run_copilot_for_source on the two tables *)

MaxData == 3

Source(idv, tns) ==
    Dict([id |-> idv, ra |-> Num(0), dec |-> Num(0), score |-> Num(5), tns_info |-> tns])

Point(jd, flux, name) ==
    Dict([jd |-> jd, flux |-> flux, filters |-> Dict([name |-> name])])

DataEntries ==
    { Str("not-a-dict"),
      Source(Num(1), ABSENT),
      Source(Num(2), Dict([object_type |-> Dict([name |-> Str("SN Ia")]),
                           photometry |-> List(<<Point(Num(10), Num(1), Str("g")),
                                                 Point(Num(12), Num(3), Str("r"))>>)])),
      Source(Num(2), Dict([photometry |-> List(<<Dict([jd |-> Num(5)]),
                                                 Str("bad"),
                                                 Point(Num(20), Num(2), Str("r"))>>)])),
      Source(ABSENT, Dict([photometry |-> List(<<Point(Num(1), Num(1), Str("g"))>>)])),
      Source(None, Dict([photometry |-> List(<<Dict([jd |-> Num(7)])>>)])),
      Source(Num(1), Dict([photometry |-> List(<<Dict([jd |-> Num(7)])>>)])),
      Source(Num(2), Str("abc")),
      Dict([id |-> Num(1), ra |-> Num(0), dec |-> Num(0)]) }

CopilotIds == {Num(1), Num(2), Num(3)}

Init ==
    /\ call = "none" /\ arg = <<>> /\ ret = None
    /\ data \in SeqsUpTo(DataEntries, MaxData)
    /\ phase = "build_dataset" /\ i = 1 /\ rows = <<>>
    /\ sources = None /\ lightcurves = None
    /\ source_id = None /\ source_row = None /\ lc = None
    /\ lc_summary = None /\ prompt = None
    /\ llm_calls = 0 /\ result = None

fnVars == <<call, arg, ret>>
copilotVars == <<source_id, source_row, lc, lc_summary, prompt, llm_calls, result>>

\* build_dataset: one iteration of `for obj in data`
BuildDatasetIter ==
    /\ phase = "build_dataset" /\ i <= Len(data)
    /\ LET obj == data[i]
           row == source_to_row(obj)
       IN  IF ~isinstance_dict(obj)
           THEN i' = i + 1 /\ UNCHANGED <<rows, sources, phase>>
           ELSE IF is_raise(row)
           THEN /\ sources' = row
                /\ phase' = "build_lightcurve_dataset" /\ i' = 1 /\ rows' = <<>>
           ELSE /\ rows' = IF row # None THEN Append(rows, row) ELSE rows
                /\ i' = i + 1
                /\ UNCHANGED <<sources, phase>>
    /\ UNCHANGED <<fnVars, data, lightcurves, copilotVars>>

\* build_dataset: return pd.DataFrame(rows)
BuildDatasetReturn ==
    /\ phase = "build_dataset" /\ i > Len(data)
    /\ sources' = DataFrame(rows)
    /\ phase' = "build_lightcurve_dataset" /\ i' = 1 /\ rows' = <<>>
    /\ UNCHANGED <<fnVars, data, lightcurves, copilotVars>>

\* build_lightcurve_dataset: one iteration of `for obj in data`
BuildLightcurveIter ==
    /\ phase = "build_lightcurve_dataset" /\ i <= Len(data)
    /\ LET obj == data[i]
           sid == get(obj, "id")
           photometry == parse_photometry(obj)
       IN  IF ~isinstance_dict(obj) THEN i' = i + 1 /\ UNCHANGED <<rows, lightcurves, phase>>
           ELSE IF sid = None THEN i' = i + 1 /\ UNCHANGED <<rows, lightcurves, phase>>
           ELSE IF is_raise(photometry)
           THEN /\ lightcurves' = photometry
                /\ phase' = "built" /\ i' = 0 /\ rows' = <<>>
           ELSE /\ rows' = rows \o point_rows(sid, photometry.items)
                /\ i' = i + 1
                /\ UNCHANGED <<lightcurves, phase>>
    /\ UNCHANGED <<fnVars, data, sources, copilotVars>>

\* build_lightcurve_dataset: return pd.DataFrame(rows)
BuildLightcurveReturn ==
    /\ phase = "build_lightcurve_dataset" /\ i > Len(data)
    /\ lightcurves' = DataFrame(rows)
    /\ phase' = "built" /\ i' = 0 /\ rows' = <<>>
    /\ UNCHANGED <<fnVars, data, sources, copilotVars>>

\* run_copilot_for_source: source_row = sources[sources["id"] == source_id].iloc[0].to_dict()
CopilotLookup ==
    /\ phase = "built" /\ is_frame(sources) /\ is_frame(lightcurves)
    /\ \E sid \in CopilotIds :
        LET matches == filter_eq(sources, "id", sid)
            first == IF is_raise(matches) THEN matches ELSE iloc0(matches)
        IN  /\ source_id' = sid
            /\ IF is_raise(first)
               THEN result' = first /\ phase' = "copilot_done" /\ UNCHANGED source_row
               ELSE source_row' = first /\ phase' = "copilot_filter" /\ UNCHANGED result
    /\ UNCHANGED <<fnVars, data, i, rows, sources, lightcurves, lc, lc_summary,
                   prompt, llm_calls>>

\* run_copilot_for_source: lc = lightcurves[lightcurves["id"] == source_id]
CopilotFilter ==
    /\ phase = "copilot_filter"
    /\ LET selected == filter_eq(lightcurves, "id", source_id)
       IN  IF is_raise(selected)
           THEN result' = selected /\ phase' = "copilot_done" /\ UNCHANGED lc
           ELSE lc' = selected /\ phase' = "copilot_summarize" /\ UNCHANGED result
    /\ UNCHANGED <<fnVars, data, i, rows, sources, lightcurves, source_id, source_row,
                   lc_summary, prompt, llm_calls>>

\* run_copilot_for_source: lc_summary = summarize_lightcurve(lc)
CopilotSummarize ==
    /\ phase = "copilot_summarize"
    /\ LET summary == summarize_lightcurve(lc)
       IN  IF is_raise(summary)
           THEN result' = summary /\ phase' = "copilot_done" /\ UNCHANGED lc_summary
           ELSE lc_summary' = summary /\ phase' = "copilot_prompt" /\ UNCHANGED result
    /\ UNCHANGED <<fnVars, data, i, rows, sources, lightcurves, source_id, source_row,
                   lc, prompt, llm_calls>>

\* run_copilot_for_source: prompt = build_prompt(source_row, lc_summary)
CopilotPrompt ==
    /\ phase = "copilot_prompt"
    /\ prompt' = build_prompt(source_row, lc_summary)
    /\ phase' = "copilot_query"
    /\ UNCHANGED <<fnVars, data, i, rows, sources, lightcurves, source_id, source_row,
                   lc, lc_summary, llm_calls, result>>

\* run_copilot_for_source: return query_llm(prompt)
CopilotQuery ==
    /\ phase = "copilot_query"
    /\ llm_calls' = llm_calls + 1
    /\ \E outcome \in query_llm_outcomes(prompt) : result' = outcome
    /\ phase' = "copilot_done"
    /\ UNCHANGED <<fnVars, data, i, rows, sources, lightcurves, source_id, source_row,
                   lc, lc_summary, prompt>>

Next ==
    \/ BuildDatasetIter
    \/ BuildDatasetReturn
    \/ BuildLightcurveIter
    \/ BuildLightcurveReturn
    \/ CopilotLookup
    \/ CopilotFilter
    \/ CopilotSummarize
    \/ CopilotPrompt
    \/ CopilotQuery

Spec == Init /\ [][Next]_vars

-----------------------------------------------------------------------------
(* Properties of the direct calls *)

RequiredNames == {"id", "ra", "dec", "score"}
Rank == [id |-> 1, ra |-> 2, dec |-> 3, score |-> 4]
AbsentRequired(o) == {f \in RequiredNames : ~has_key(o, f)}

\* C1: validate_source fails with a missing-field error naming the first absent
\* field in the order id, ra, dec, score when one of the four is absent, and
\* succeeds when all four are present, whatever else the record holds.
C1_ValidateSource ==
    call = "validate_source" =>
        LET absent == AbsentRequired(arg[1])
        IN  IF absent = {} THEN ret = None
            ELSE \E f \in absent :
                    /\ \A g \in absent : Rank[f] <= Rank[g]
                    /\ ret = Raise("KeyError", f)

C1_Witness ==
    /\ call = "validate_source"
    /\ AbsentRequired(arg[1]) = {"dec", "score"}
    /\ has_key(arg[1], "tns_info")
    /\ ret = Raise("KeyError", "dec")

\* The list nested under tns_info at key when tns_info is a dict and the nested
\* value a list, the empty list otherwise.
NestedList(o, key) ==
    IF /\ has_key(o, "tns_info")
       /\ isinstance_dict(o.m["tns_info"])
       /\ has_key(o.m["tns_info"], key)
       /\ isinstance_list(o.m["tns_info"].m[key])
    THEN o.m["tns_info"].m[key]
    ELSE List(<<>>)

\* C2: parse_photometry and parse_spectra never fail on a mapping record: they
\* return the list nested under tns_info when it is a list, and the empty list
\* when tns_info is absent, is not an object, or the nested value is not a list.
C2_ExtractorsNeverFail ==
    /\ call = "parse_photometry" => ret = NestedList(arg[1], "photometry")
    /\ call = "parse_spectra" => ret = NestedList(arg[1], "spectra")

\* C3: whenever source_to_row returns a row, n_photometry is the length of the
\* list parse_photometry extracts and has_photometry says whether it is positive;
\* likewise n_spectra and has_spectra for parse_spectra.
C3_CountsMatchLists ==
    (call = "source_to_row" /\ isinstance_dict(ret)) =>
        LET o == arg[1]
            row == ret.m
        IN  /\ ~is_raise(parse_photometry(o))
            /\ ~is_raise(parse_spectra(o))
            /\ row.n_photometry = Num(Len(parse_photometry(o).items))
            /\ row.n_photometry = Num(Len(NestedList(o, "photometry").items))
            /\ row.has_photometry = Bool(row.n_photometry.n > 0)
            /\ row.n_spectra = Num(Len(parse_spectra(o).items))
            /\ row.n_spectra = Num(Len(NestedList(o, "spectra").items))
            /\ row.has_spectra = Bool(row.n_spectra.n > 0)

C3_Witness ==
    /\ call = "source_to_row" /\ isinstance_dict(ret)
    /\ ret.m.n_photometry = Num(2) /\ ret.m.has_photometry = Bool(TRUE)
    /\ ret.m.n_spectra = Num(0) /\ ret.m.has_spectra = Bool(FALSE)

\* C4: photometry_point_to_row emits no row for a point that is not a mapping or
\* whose jd is absent or null; otherwise it emits one row carrying the given
\* source id and the point's jd, with is_detection true exactly when flux is
\* present and non-null; a missing or non-mapping filters value gives an absent
\* filter.
C4_PointToRow ==
    call = "photometry_point_to_row" =>
        LET sid == arg[1]
            p == arg[2]
        IN  IF ~isinstance_dict(p) \/ ~has_key(p, "jd") \/ p.m["jd"] = None
            THEN ret = None
            ELSE /\ isinstance_dict(ret)
                 /\ ret.m.id = sid
                 /\ ret.m.jd = p.m["jd"]
                 /\ ret.m.is_detection =
                        Bool(has_key(p, "flux") /\ p.m["flux"] # None)
                 /\ (~has_key(p, "filters") \/ ~isinstance_dict(p.m["filters"]))
                        => ret.m.filter = None

C4_Witness ==
    /\ call = "photometry_point_to_row"
    /\ isinstance_dict(arg[2])
    /\ has_key(arg[2], "jd") /\ ~has_key(arg[2], "flux")
    /\ has_key(arg[2], "filters") /\ arg[2].m["filters"] = Str("r")
    /\ isinstance_dict(ret)
    /\ ret.m.is_detection = Bool(FALSE) /\ ret.m.filter = None

-----------------------------------------------------------------------------
(* Properties of the pipeline *)

BuildDatasetDone == phase \notin {"idle", "build_dataset"}

MappingEntries(d) == SelectSeq(d, isinstance_dict)

\* object_type.name under tns_info where both are dicts, else None
NestedLabel(o) ==
    IF /\ has_key(o, "tns_info")
       /\ isinstance_dict(o.m["tns_info"])
       /\ has_key(o.m["tns_info"], "object_type")
       /\ isinstance_dict(o.m["tns_info"].m["object_type"])
       /\ has_key(o.m["tns_info"].m["object_type"], "name")
    THEN o.m["tns_info"].m["object_type"].m["name"]
    ELSE None

\* C5: when every mapping entry of the input has the four required fields,
\* build_dataset returns a table with exactly one row per mapping entry, in
\* input order, each row carrying the id and label of its record.
C5_OneRowPerMapping ==
    LET maps == MappingEntries(data)
    IN  (BuildDatasetDone /\ \A k \in DOMAIN maps : AbsentRequired(maps[k]) = {}) =>
            /\ is_frame(sources)
            /\ Len(sources.rows) = Len(maps)
            /\ \A k \in DOMAIN maps :
                /\ sources.rows[k].m.id = maps[k].m["id"]
                /\ sources.rows[k].m.label = NestedLabel(maps[k])

Incomplete(d) == {k \in DOMAIN d : isinstance_dict(d[k]) /\ AbsentRequired(d[k]) # {}}

\* C6: when some mapping entry lacks a required field, build_dataset fails with
\* the missing-field error of the first such entry and returns no table.
C6_MissingFieldAborts ==
    (BuildDatasetDone /\ Incomplete(data) # {}) =>
        \E k \in Incomplete(data) :
            /\ \A j \in Incomplete(data) : k <= j
            /\ \E f \in AbsentRequired(data[k]) :
                /\ \A g \in AbsentRequired(data[k]) : Rank[f] <= Rank[g]
                /\ sources = Raise("KeyError", f)

\* The rows emitted for a list of points, in their listed order
RowsOf(sid, points) ==
    SelectSeq([k \in 1..Len(points) |-> photometry_point_to_row(sid, points[k])],
              LAMBDA r : r # None)

RowsOfRecord(o) == RowsOf(get(o, "id"), NestedList(o, "photometry").items)

RECURSIVE ConcatMappings(_, _)
ConcatMappings(d, n) ==
    IF n = 0 THEN <<>>
    ELSE ConcatMappings(d, n - 1) \o
         (IF isinstance_dict(d[n]) THEN RowsOfRecord(d[n]) ELSE <<>>)

RECURSIVE ConcatIdentified(_, _)
ConcatIdentified(d, n) ==
    IF n = 0 THEN <<>>
    ELSE ConcatIdentified(d, n - 1) \o
         (IF isinstance_dict(d[n]) /\ get(d[n], "id") # None
          THEN RowsOfRecord(d[n]) ELSE <<>>)

\* C7 (as claimed): the rows build_lightcurve_dataset returns are the
\* concatenation, over the mapping records in input order, of the rows emitted
\* for each record's photometry points in their listed order.
C7_ConcatOverMappings ==
    is_frame(lightcurves) => lightcurves.rows = ConcatMappings(data, Len(data))

\* C7 (amended): the rows build_lightcurve_dataset has collected, and the rows it
\* returns, are the concatenation, over the mapping records in input order whose
\* id is present and non-null, of the rows emitted for each record's photometry
\* points in their listed order; every row carries its record's id; a mapping
\* record without id contributes no row.
C7_ConcatOverIdentified ==
    /\ phase = "build_lightcurve_dataset" => rows = ConcatIdentified(data, i - 1)
    /\ is_frame(lightcurves) =>
        /\ lightcurves.rows = ConcatIdentified(data, Len(data))
        /\ \A k \in DOMAIN lightcurves.rows :
            \E n \in DOMAIN data :
                /\ isinstance_dict(data[n])
                /\ lightcurves.rows[k].m.id = get(data[n], "id")

C7_Witness ==
    /\ is_frame(lightcurves)
    /\ Len(lightcurves.rows) >= 3
    /\ \E a, b \in DOMAIN lightcurves.rows :
        a + 1 < b /\ lightcurves.rows[a].m.id # lightcurves.rows[b].m.id
    /\ \E n \in DOMAIN data :
        /\ isinstance_dict(data[n]) /\ get(data[n], "id") = None
        /\ RowsOfRecord(data[n]) # <<>>

\* C8: n_points is the row count and n_detections the count of rows with
\* non-null flux; without a detection flux_min, flux_max and time_span_days are
\* absent; with one, flux_min and flux_max are the least and greatest flux among
\* detections and time_span_days is max(jd) - min(jd) over detection rows only.
C8_Summary ==
    lc_summary # None =>
        LET rs == lc.rows
            dets == {k \in DOMAIN rs : rs[k].m.flux # None}
            fluxes == {rs[k].m.flux.n : k \in dets}
            jds == {rs[k].m.jd.n : k \in dets}
            s == lc_summary.m
        IN  /\ s.n_points = Num(Len(rs))
            /\ s.n_detections = Num(Cardinality(dets))
            /\ IF dets = {}
               THEN s.flux_min = None /\ s.flux_max = None /\ s.time_span_days = None
               ELSE /\ s.flux_min.n \in fluxes /\ \A f \in fluxes : s.flux_min.n <= f
                    /\ s.flux_max.n \in fluxes /\ \A f \in fluxes : s.flux_max.n >= f
                    /\ \E lo, hi \in jds :
                        /\ \A j \in jds : lo <= j /\ j <= hi
                        /\ s.time_span_days = Num(hi - lo)

C8_Witness ==
    /\ lc_summary # None
    /\ lc_summary.m.n_detections.n >= 2
    /\ lc_summary.m.n_points.n > lc_summary.m.n_detections.n
    /\ lc_summary.m.flux_min # lc_summary.m.flux_max
    /\ \E k \in DOMAIN lc.rows :
        /\ lc.rows[k].m.flux = None
        /\ \A j \in DOMAIN lc.rows :
            lc.rows[j].m.flux # None => lc.rows[k].m.jd.n < lc.rows[j].m.jd.n

IdInSources ==
    is_frame(sources) /\ \E k \in DOMAIN sources.rows : sources.rows[k].m.id = source_id

\* C9: with the identifier absent from the source table the call fails with a
\* lookup failure and the model is never called; with it present the model is
\* called exactly once, after the lookup, summary and prompt steps, and the
\* call's outcome is the outcome of run_copilot_for_source.
C9_ModelCalledOnce ==
    /\ llm_calls <= 1
    /\ llm_calls = 1 => source_row # None /\ lc_summary # None /\ prompt # None
    /\ phase = "copilot_done" =>
        IF IdInSources
        THEN llm_calls = 1 /\ result \in query_llm_outcomes(prompt)
        ELSE /\ llm_calls = 0
             /\ is_raise(result) /\ result.exc \in {"IndexError", "KeyError"}

SourceColumns ==
    {"id", "ra", "dec", "score", "is_transient", "is_varstar", "is_roid", "redshift",
     "label", "has_tns", "has_redshift", "has_photometry", "has_spectra",
     "n_photometry", "n_spectra"}

LightcurveColumns == {"id", "jd", "flux", "flux_err", "filter", "is_detection"}

\* C10: a table built from input that emits no row has zero rows and the same
\* columns as a table built from input that emits rows: the 15 source columns,
\* respectively the 6 lightcurve columns.
C10_EmptyTableKeepsColumns ==
    /\ is_frame(sources) => sources.columns = SourceColumns
    /\ is_frame(lightcurves) => lightcurves.columns = LightcurveColumns

====
